---- MODULE Spec2Model ----
(***************************************************************************)
(* Example admission (ExampleModel.create, verify_signature) and example   *)
(* retrieval (getRandom, getRandomFiltered) of api/models/example.py.       *)
(*                                                                         *)
(* Conventions                                                             *)
(*   - Python None and SQL NULL are the empty set, a present value v is    *)
(*     the singleton {v}.                                                  *)
(*   - Text that is hashed is a sequence of one-character strings, so that *)
(*     concatenation and byte-level equality are what the code computes.   *)
(*   - A Python dict is a sequence of <<key, value>> pairs in insertion    *)
(*     order (the code reads "the first value" of a dict).                 *)
(*   - A JSON value is a record [k, s, d]: its kind, its text rendering    *)
(*     (str(v)) and, for a nested dict, its entries.                       *)
(***************************************************************************)
EXTENDS Integers, Sequences, FiniteSets, TLC

VARIABLES examples, validations, last

vars == <<examples, validations, last>>

-----------------------------------------------------------------------------
(* Optional values *)

None == {}

Some(v) == {v}

The(o) == CHOOSE v \in o : TRUE

-----------------------------------------------------------------------------
(* Text *)

Digits == <<"0", "1", "2", "3", "4", "5", "6", "7", "8", "9">>

\* str(n) / f"{n}" of a non-negative integer: its decimal digits
RECURSIVE IntStr(_)
IntStr(n) ==
    IF n < 10 THEN <<Digits[n + 1]>>
    ELSE IntStr(n \div 10) \o <<Digits[(n % 10) + 1]>>

\* s.startswith(p)
StartsWith(s, p) == Len(s) >= Len(p) /\ SubSeq(s, 1, Len(p)) = p

\* "".join(fields): the bytes a cumulative digest has consumed after
\* h.update(f) for each f in order
RECURSIVE Flatten(_)
Flatten(fields) ==
    IF fields = <<>> THEN <<>> ELSE Head(fields) \o Flatten(Tail(fields))

\* sep.join(parts)
RECURSIVE Join(_, _)
Join(sep, parts) ==
    IF parts = <<>> THEN <<>>
    ELSE IF Len(parts) = 1 THEN parts[1]
    ELSE parts[1] \o sep \o Join(sep, Tail(parts))

-----------------------------------------------------------------------------
(* JSON values and dicts *)

StrV(s) == [k |-> "str", s |-> s, d |-> <<>>]

NumV(s) == [k |-> "num", s |-> s, d |-> <<>>]

BoolV(b) ==
    [k |-> "bool",
     s |-> IF b THEN <<"T", "r", "u", "e">> ELSE <<"F", "a", "l", "s", "e">>,
     d |-> <<>>]

\* a nested dict of label -> number, entries as <<label, rendering>>
ProbsV(entries) == [k |-> "dict", s |-> <<>>, d |-> entries]

Keys(dict) == {dict[i][1] : i \in DOMAIN dict}

Has(dict, key) == key \in Keys(dict)

Get(dict, key) == dict[CHOOSE i \in DOMAIN dict : dict[i][1] = key][2]

\* dict.update(other): an existing key keeps its position and takes the new
\* value, a new key is appended
RECURSIVE Update(_, _)
Update(dict, other) ==
    IF other = <<>> THEN dict
    ELSE LET key == other[1][1]
             val == other[1][2]
             upd == IF Has(dict, key)
                    THEN [i \in DOMAIN dict |->
                            IF dict[i][1] = key THEN <<key, val>> ELSE dict[i]]
                    ELSE Append(dict, <<key, val>>)
         IN Update(upd, Tail(other))

\* list(dict.values())[0]
FirstValue(dict) == dict[1][2]

\* str(v)
PyStr(v) == IF v.k = "dict" THEN <<"{">> \o Flatten([i \in DOMAIN v.d |-> v.d[i][2]]) \o <<"}">> ELSE v.s

\* bool(v) of a JSON value (what "not v" negates)
Truthy(v) ==
    CASE v.k = "bool" -> v.s = <<"T", "r", "u", "e">>
      [] v.k = "dict" -> v.d # <<>>
      [] v.k = "num" -> v.s \notin {<<"0">>, <<"0", ".", "0">>}
      [] OTHER -> v.s # <<>>

\* float(v) succeeds: a number or a bool (text here is never numeric)
FloatOk(v) == v.k \in {"num", "bool"}

\* str(float(v)): an integer rendering gains ".0", True is 1.0
PyFloatStr(v) ==
    IF v.k = "bool" THEN (IF Truthy(v) THEN <<"1", ".", "0">> ELSE <<"0", ".", "0">>)
    ELSE IF \E i \in DOMAIN v.s : v.s[i] = "." THEN v.s
    ELSE v.s \o <<".", "0">>

-----------------------------------------------------------------------------
(* The read-only tables: tasks, rounds, contexts, hosted models *)

TaskIds == 1 .. 5

\* annotation_config_json of a task: ordered, named, typed fields
Field(name, type) == [name |-> name, type |-> type]

Tasks ==
    [tid \in TaskIds |->
        CASE tid = 1 ->
               [task_code |-> "nli",
                context |-> <<Field("context", "string")>>,
                input |-> <<Field("hypothesis", "string")>>,
                output |-> <<Field("label", "multiclass"),
                             Field("prob", "multiclass_probs")>>]
          [] tid = 2 ->
               [task_code |-> "sentiment",
                context |-> <<Field("context", "string")>>,
                input |-> <<Field("statement", "string")>>,
                output |-> <<Field("label", "multiclass"),
                             Field("prob", "multiclass_probs")>>]
          [] tid = 3 ->
               [task_code |-> "vqa",
                context |-> <<Field("context", "string")>>,
                input |-> <<Field("question", "string")>>,
                output |-> <<Field("answer", "string"),
                             Field("prob", "conf")>>]
          [] tid = 4 ->
               [task_code |-> "qa",
                context |-> <<Field("context", "string")>>,
                input |-> <<Field("question", "string")>>,
                output |-> <<Field("text", "string"),
                             Field("model_is_correct", "bool"),
                             Field("model_id", "string")>>]
          [] OTHER ->
               [task_code |-> "mt",
                context |-> <<Field("context", "string")>>,
                input |-> <<Field("hypothesis", "string")>>,
                output |-> <<Field("label", "multiclass"),
                             Field("prob", "conf")>>]]

RoundIds == 1 .. 6

\* Round rows by primary key: owning task, round index, round secret
Rounds ==
    [r \in RoundIds |->
        CASE r = 1 -> [tid |-> 1, rid |-> 1, secret |-> <<"1", "s">>]
          [] r = 2 -> [tid |-> 1, rid |-> 11, secret |-> <<"s">>]
          [] r = 3 -> [tid |-> 2, rid |-> 1, secret |-> <<"s">>]
          [] r = 4 -> [tid |-> 3, rid |-> 1, secret |-> <<"s">>]
          [] r = 5 -> [tid |-> 4, rid |-> 1, secret |-> <<"s">>]
          [] OTHER -> [tid |-> 5, rid |-> 1, secret |-> <<"s">>]]

ContextIds == 1 .. 7

CtxDict(text) == << <<"context", StrV(text)>> >>

\* Context rows by primary key: owning round, parsed context_json
Contexts ==
    [c \in ContextIds |->
        CASE c = 1 -> [r_realid |-> 1, context |-> CtxDict(<<"a">>)]
          [] c = 2 -> [r_realid |-> 1, context |-> CtxDict(<<"b">>)]
          [] c = 3 -> [r_realid |-> 2, context |-> CtxDict(<<"a">>)]
          [] c = 4 -> [r_realid |-> 3, context |-> CtxDict(<<"a">>)]
          [] c = 5 -> [r_realid |-> 4, context |-> CtxDict(<<"a">>)]
          [] c = 6 -> [r_realid |-> 5, context |-> CtxDict(<<"a">>)]
          [] OTHER -> [r_realid |-> 6, context |-> CtxDict(<<"a">>)]]

\* c.round and c.round.task of a context row
RoundOf(cid) == Rounds[Contexts[cid].r_realid]

TaskOf(cid) == Tasks[RoundOf(cid).tid]

-----------------------------------------------------------------------------
(* verify_signature: the legacy scheme *)

\* hashlib.sha1 over the consumed bytes, read as collision-free: the digest
\* determines the bytes and nothing else
Sha1Hex(bytes) == <<"#">> \o bytes

\* f"{tid}{rid}{secret}"
TripleStr(cid) ==
    IntStr(RoundOf(cid).tid) \o IntStr(RoundOf(cid).rid) \o RoundOf(cid).secret

ContextStr(cid) == FirstValue(Contexts[cid].context).s

HashesContext(cid) == TaskOf(cid).task_code \notin {"sentiment", "hs"}

FieldsToSign(cid, hypothesis, pred_str) ==
    <<pred_str>>
    \o (IF HashesContext(cid) THEN <<ContextStr(cid)>> ELSE <<>>)
    \o <<hypothesis>>
    \o <<TripleStr(cid)>>

VerifySignature(signature, cid, hypothesis, pred_str) ==
    Sha1Hex(Flatten(FieldsToSign(cid, hypothesis, pred_str))) = signature

-----------------------------------------------------------------------------
(* The collaborators of create: schema validation and the delegated scheme *)

\* the JSON kind a schema type admits
TypeKind(type) ==
    CASE type \in {"string", "multiclass"} -> "str"
      [] type = "multiclass_probs" -> "dict"
      [] type = "conf" -> "num"
      [] OTHER -> "bool"

SchemaFields(task) == task.context \o task.input \o task.output

\* task.verify_annotation(data): every field of the payload that the task's
\* annotation schema declares has a value of the declared type
VerifyAnnotation(task, data) ==
    \A i \in DOMAIN data :
        \A j \in DOMAIN SchemaFields(task) :
            SchemaFields(task)[j].name = data[i][1]
            => data[i][2].k = TypeKind(SchemaFields(task)[j].type)

\* task.convert_to_model_io(data): the payload in the serving format, which
\* keeps the names and the renderings of the fields that get signed
ConvertToModelIo(task, data) == data

\* ujson.loads(task.annotation_config_json)
AnnotationConfig(task) ==
    [context |-> task.context, input |-> task.input, output |-> task.output]

\* the configuration of a pre-dynatask model: no context for hs and
\* sentiment, no multiclass_probs or conf outputs
PreDynataskConfig(task) ==
    LET KeepLegacy(obj) == obj.type \notin {"multiclass_probs", "conf"}
    IN [context |-> IF task.task_code \in {"hs", "sentiment"} THEN <<>> ELSE task.context,
        input |-> task.input,
        output |-> SelectSeq(task.output, KeepLegacy)]

\* the text of the fields of a list that the payload carries, in list order
SignedFields(fields, data) ==
    LET Present(obj) == Has(data, obj.name)
        kept == SelectSeq(fields, Present)
    IN [i \in DOMAIN kept |-> PyStr(Get(data, kept[i].name))]

\* TaskIO(config).generate_response_signature(data, data, secret): a digest of
\* the output fields, the context and input fields and the model secret
GenerateResponseSignature(config, data, secret) ==
    Sha1Hex(Flatten(SignedFields(config.output, data)
                    \o SignedFields(config.context \o config.input, data)
                    \o <<secret>>))

\* Model rows: endpoint name -> secret
HostedModels == {[endpoint_name |-> <<"t", "s", "1">>, secret |-> <<"k">>]}

\* query(Model).filter(endpoint_name == name).one().secret; None stands for
\* the NoResultFound that .one() raises
ModelSecret(name) ==
    {m.secret : m \in {h \in HostedModels : h.endpoint_name = name}}

-----------------------------------------------------------------------------
(* ExampleModel.create *)

\* How the checks of create end: "false" (return False), "raise" (an
\* exception leaves create) or "pass" (the example is constructed); trace
\* lists the collaborator calls made, model_wrong is the flag to store.
Reject(trace) == [outcome |-> "false", trace |-> trace, model_wrong |-> None]

Raise(trace) == [outcome |-> "raise", trace |-> trace, model_wrong |-> None]

Pass(trace, model_wrong) ==
    [outcome |-> "pass", trace |-> trace, model_wrong |-> model_wrong]

TurkWithoutAnnotator(a) ==
    a.uid = "turk" /\ ~Has(a.metadata, "annotator_id")

ContextMismatch(a) ==
    a.tid # RoundOf(a.cid).tid \/ a.rid # RoundOf(a.cid).rid

\* all_user_annotation_data
UserAnnotationData(a) == Update(Update(<<>>, Contexts[a.cid].context), a.input)

\* all_model_annotation_data; the output overwrites user fields
ModelAnnotationData(a) == Update(UserAnnotationData(a), The(a.output))

NoModelInLoopIgnoringFlag(a) ==
    /\ a.model_signature = None
    /\ a.model_endpoint_name = None
    /\ a.output = None

NoModelInLoop(a) ==
    /\ a.model_signature = None
    /\ a.model_wrong = None
    /\ a.model_endpoint_name = None
    /\ a.output = None

\* the two signatures the delegated scheme accepts
DelegatedCurrent(a, secret) ==
    GenerateResponseSignature(
        AnnotationConfig(TaskOf(a.cid)),
        ConvertToModelIo(TaskOf(a.cid), ModelAnnotationData(a)), secret)

DelegatedLegacy(a, secret) ==
    GenerateResponseSignature(
        PreDynataskConfig(TaskOf(a.cid)),
        ConvertToModelIo(TaskOf(a.cid), ModelAnnotationData(a)), secret)

DelegatedAcceptsCurrentOnly(a, secret) ==
    a.model_signature = Some(DelegatedCurrent(a, secret))

DelegatedAccepts(a, secret) ==
    \/ a.model_signature = Some(DelegatedCurrent(a, secret))
    \/ a.model_signature = Some(DelegatedLegacy(a, secret))

\* text % args: a TypeError unless the text has one %s per argument
PyFormatOk(fmt, args) ==
    Cardinality({i \in DOMAIN fmt : fmt[i] = "%s"}) = Len(args)

\* the operand of % in the mismatch message: % binds before +, so it is the
\* second literal alone (line 196)
MismatchLogFormat == <<" ", "%s", " or ", "%s", ")">>

\* line 214
MatchLogFormat ==
    <<"Signature matches (received ", "%s", ", expected to be ", "%s", " or ", "%s", ")">>

\* the received signature and the two expected ones
SignatureLogArgs(a, secret) ==
    <<a.model_signature, DelegatedCurrent(a, secret), DelegatedLegacy(a, secret)>>

DelegatedScheme(a, trace) ==
    IF ModelSecret(The(a.model_endpoint_name)) = None THEN Raise(trace)
    ELSE LET secret == The(ModelSecret(The(a.model_endpoint_name)))
             checked == Append(trace, "delegated_signature")
         IN IF ~DelegatedAccepts(a, secret)
            THEN IF PyFormatOk(MismatchLogFormat, SignatureLogArgs(a, secret))
                 THEN Reject(checked)
                 ELSE Raise(checked)
            ELSE IF PyFormatOk(MatchLogFormat, SignatureLogArgs(a, secret))
                 THEN Pass(checked, a.model_wrong)
                 ELSE Raise(checked)

\* The prediction string of the legacy scheme and the model_wrong flag it
\* leaves: kind "ok", "false" (return False) or "raise"
Prediction(kind, pred, model_wrong) ==
    [kind |-> kind, pred |-> pred, model_wrong |-> model_wrong]

\* "|" + str(output["model_id"]) when the output names a model
WithModelId(output, pred) ==
    IF Has(output, "model_id")
    THEN pred \o <<"|">> \o PyStr(Get(output, "model_id"))
    ELSE pred

QaPredictionFlagFromCorrectness(task_code, output) ==
    IF Has(output, "model_is_correct")
    THEN Prediction("ok", PyStr(Get(output, "model_is_correct")),
                    Some(~Truthy(Get(output, "model_is_correct"))))
    ELSE IF task_code = "vqa" /\ Has(output, "answer") /\ Has(output, "prob")
    THEN Prediction("ok", PyStr(Get(output, "answer")), Some(TRUE))
    ELSE Prediction("false", <<>>, None)

QaPrediction(task_code, output) ==
    IF task_code = "vqa" /\ Has(output, "answer") /\ Has(output, "prob")
    THEN IF ~FloatOk(Get(output, "prob")) THEN Prediction("raise", <<>>, None)
         ELSE Prediction("ok",
                  WithModelId(output,
                      PyStr(Get(output, "answer")) \o <<"|">>
                      \o PyFloatStr(Get(output, "prob"))),
                  Some(FALSE))
    ELSE IF Has(output, "model_is_correct") /\ Has(output, "text")
    THEN Prediction("ok",
             WithModelId(output,
                 PyStr(Get(output, "model_is_correct")) \o <<"|">>
                 \o PyStr(Get(output, "text"))),
             Some(~Truthy(Get(output, "model_is_correct"))))
    ELSE Prediction("false", <<>>, None)

\* the class labels whose probabilities are joined, in order
ProbLabels(task_code) ==
    CASE task_code = "nli" -> <<"entailed", "neutral", "contradictory">>
      [] task_code = "sentiment" -> <<"negative", "positive", "neutral">>
      [] task_code = "hs" -> <<"not-hateful", "hateful">>
      [] OTHER -> <<>>

ProbsPrediction(task_code, output, model_wrong) ==
    IF ~Has(output, "prob") THEN Prediction("false", <<>>, None)
    ELSE IF task_code \notin {"nli", "sentiment", "hs"}
    THEN Prediction("raise", <<>>, None)   \* pred is never bound
    ELSE LET prob == Get(output, "prob")
             labels == ProbLabels(task_code)
         IN IF prob.k # "dict"
               \/ \E i \in DOMAIN labels : ~Has(prob.d, labels[i])
            THEN Prediction("raise", <<>>, None)
            ELSE Prediction("ok",
                     Join(<<"|">>, [i \in DOMAIN labels |-> Get(prob.d, labels[i])]),
                     model_wrong)

LegacyPrediction(a) ==
    IF TaskOf(a.cid).task_code \in {"qa", "vqa"}
    THEN QaPrediction(TaskOf(a.cid).task_code, The(a.output))
    ELSE ProbsPrediction(TaskOf(a.cid).task_code, The(a.output), a.model_wrong)

LegacyScheme(a, trace) ==
    LET p == LegacyPrediction(a)
    IN IF p.kind = "false" THEN Reject(trace)
       ELSE IF p.kind = "raise" THEN Raise(trace)
       ELSE IF a.input = <<>> \/ FirstValue(a.input).k # "str" THEN Raise(trace)
       ELSE IF a.model_signature # None
               /\ VerifySignature(The(a.model_signature), a.cid,
                                  FirstValue(a.input).s, p.pred)
       THEN Pass(Append(trace, "verify_signature"), p.model_wrong)
       ELSE Reject(Append(trace, "verify_signature"))

ModelChecks(a, trace) ==
    IF a.output = None THEN Raise(trace)   \* dict.update(None)
    ELSE IF ~VerifyAnnotation(TaskOf(a.cid), ModelAnnotationData(a))
    THEN Reject(Append(trace, "verify_annotation"))
    ELSE IF a.model_endpoint_name = None
    THEN Raise(Append(trace, "verify_annotation"))   \* None.startswith
    ELSE IF StartsWith(The(a.model_endpoint_name), <<"t", "s">>)
    THEN DelegatedScheme(a, Append(trace, "verify_annotation"))
    ELSE LegacyScheme(a, Append(trace, "verify_annotation"))

\* lines 89-279 of create: every check before the example is constructed
CreateChecksUnvalidated(a) ==
    IF TurkWithoutAnnotator(a) THEN Reject(<<>>)
    ELSE IF ContextMismatch(a) THEN Reject(<<"get_context">>)
    ELSE IF NoModelInLoop(a)
    THEN Pass(<<"get_context", "verify_annotation">>, a.model_wrong)
    ELSE ModelChecks(a, <<"get_context", "verify_annotation">>)

CreateChecksTurkLate(a) ==
    IF ContextMismatch(a) THEN Reject(<<"get_context">>)
    ELSE IF ~VerifyAnnotation(Tasks[a.tid], UserAnnotationData(a))
    THEN Reject(<<"get_context", "verify_annotation">>)
    ELSE IF TurkWithoutAnnotator(a)
    THEN Reject(<<"get_context", "verify_annotation">>)
    ELSE IF NoModelInLoop(a)
    THEN Pass(<<"get_context", "verify_annotation">>, a.model_wrong)
    ELSE ModelChecks(a, <<"get_context", "verify_annotation">>)

CreateChecks(a) ==
    IF TurkWithoutAnnotator(a) THEN Reject(<<>>)
    ELSE IF ContextMismatch(a) THEN Reject(<<"get_context">>)
    ELSE IF ~VerifyAnnotation(Tasks[a.tid], UserAnnotationData(a))
    THEN Reject(<<"get_context", "verify_annotation">>)
    ELSE IF NoModelInLoop(a)
    THEN Pass(<<"get_context", "verify_annotation">>, a.model_wrong)
    ELSE ModelChecks(a, <<"get_context", "verify_annotation">>)

\* the Example row of lines 282-297; the id is the store's next key
NewExample(a, model_wrong) ==
    [id |-> Len(examples) + 1,
     cid |-> a.cid,
     uid |-> IF a.uid = "turk" THEN None ELSE Some(a.uid),
     tag |-> a.tag,
     model_wrong |-> model_wrong,
     model_endpoint_name |-> a.model_endpoint_name,
     retracted |-> FALSE,
     total_verified |-> 0]

\* add, flush and commit inside try: the row is stored iff the write succeeds
StoredEvenIfWriteFails(checks, storeOk) == checks.outcome = "pass"

Stored(checks, storeOk) == checks.outcome = "pass" /\ storeOk

\* what the caller gets: the example, False, or an exception
Returned(checks, storeOk) ==
    IF checks.outcome = "raise" THEN "raise"
    ELSE IF checks.outcome = "pass" /\ storeOk THEN "example"
    ELSE "false"

\* create(tid, rid, uid, cid, input, output, model_signature, metadata,
\* model_wrong, tag, model_endpoint_name); storeOk: whether the write
\* succeeds, which matters only when create reaches the write
Create(a, storeOk) ==
    /\ last.op = "idle"
    /\ \E checks \in {CreateChecks(a)} :
        /\ storeOk \/ checks.outcome = "pass"
        /\ examples' = IF Stored(checks, storeOk)
                       THEN Append(examples, NewExample(a, checks.model_wrong))
                       ELSE examples
        /\ last' = [op |-> "create",
                    args |-> a,
                    storeOk |-> storeOk,
                    trace |-> checks.trace,
                    returned |-> Returned(checks, storeOk),
                    example |-> IF Returned(checks, storeOk) = "example"
                                THEN Some(NewExample(a, checks.model_wrong))
                                ELSE None]
    /\ UNCHANGED validations

\* the call returns to its caller, which is then free to make the next one
Return ==
    /\ last.op # "idle"
    /\ last' = [op |-> "idle"]
    /\ UNCHANGED <<examples, validations>>

-----------------------------------------------------------------------------
(* The submissions that are tried *)

Submission(tid, rid, who, cid, input, output, sig, model_wrong, tag, endpoint) ==
    [tid |-> tid, rid |-> rid, uid |-> who[1], cid |-> cid, input |-> input,
     output |-> output, model_signature |-> sig, metadata |-> who[2],
     model_wrong |-> model_wrong, tag |-> tag, model_endpoint_name |-> endpoint]

\* submitter and metadata: an anonymous worker without and with a worker id,
\* a registered user
AnonymousWithoutId == <<"turk", << <<"source", StrV(<<"m">>)>> >> >>

AnonymousWithId == <<"turk", << <<"annotator_id", StrV(<<"w">>)>> >> >>

Registered == <<"u1", <<>> >>

OtherRegistered == <<"u2", <<>> >>

InputName(cid) == TaskOf(cid).input[1].name

ValidInput(cid) == << <<InputName(cid), StrV(<<"h">>)>> >>

InvalidInput(cid) == << <<InputName(cid), NumV(<<"9">>)>> >>

NliProbs ==
    ProbsV(<< <<"entailed", <<"0", ".", "7">> >>,
              <<"neutral", <<"0", ".", "2">> >>,
              <<"contradictory", <<"0", ".", "1">> >> >>)

SentimentProbs ==
    ProbsV(<< <<"negative", <<"0", ".", "6">> >>,
              <<"positive", <<"0", ".", "3">> >>,
              <<"neutral", <<"0", ".", "1">> >> >>)

\* the outputs tried for a context's task, the first one well-formed
OutputList(cid) ==
    CASE TaskOf(cid).task_code = "nli" ->
           << << <<"prob", NliProbs>> >>,
              << <<"label", StrV(<<"e">>)>>, <<"prob", NliProbs>> >>,
              << <<"prob", StrV(<<"x">>)>> >> >>
      [] TaskOf(cid).task_code = "sentiment" ->
           << << <<"prob", SentimentProbs>> >> >>
      [] TaskOf(cid).task_code = "vqa" ->
           << << <<"answer", StrV(<<"y">>)>>, <<"prob", NumV(<<"1">>)>> >>,
              << <<"answer", StrV(<<"y">>)>> >> >>
      [] TaskOf(cid).task_code = "qa" ->
           << << <<"model_is_correct", BoolV(FALSE)>>, <<"text", StrV(<<"y">>)>> >>,
              << <<"model_is_correct", BoolV(TRUE)>>, <<"text", StrV(<<"y">>)>>,
                 <<"model_id", StrV(<<"m">>)>> >>,
              << <<"text", StrV(<<"y">>)>> >> >>
      [] OTHER ->
           << << <<"prob", NumV(<<"1">>)>> >>,
              << <<"label", StrV(<<"e">>)>> >> >>

Outputs(cid) == {Some(OutputList(cid)[i]) : i \in DOMAIN OutputList(cid)}

Flags == {None, Some(TRUE), Some(FALSE)}

LegacyEndpoint == <<"m", "1">>

HostedEndpoint == <<"t", "s", "1">>

UnknownHostedEndpoint == <<"t", "s", "9">>

\* hosted (delegated-scheme) endpoints are tried on the nli task
Endpoints(cid) ==
    {None, Some(LegacyEndpoint)}
    \cup (IF TaskOf(cid).task_code = "nli"
          THEN {Some(HostedEndpoint), Some(UnknownHostedEndpoint)} ELSE {})

\* the legacy digest of a submission, when its prediction string exists
LegacySignatures(a) ==
    IF a.output # None /\ LegacyPrediction(a).kind = "ok"
    THEN {Some(Sha1Hex(Flatten(FieldsToSign(a.cid, FirstValue(a.input).s,
                                             LegacyPrediction(a).pred))))}
    ELSE {}

\* the two delegated reconstructions under the endpoint's secret
DelegatedSignatures(a) ==
    IF a.output # None /\ a.model_endpoint_name # None
    THEN UNION {{Some(DelegatedCurrent(a, secret)), Some(DelegatedLegacy(a, secret))} :
                secret \in ModelSecret(The(a.model_endpoint_name))}
    ELSE {}

\* The signatures a client may send with a submission: none, a wrong one,
\* the legacy digest, the delegated reconstructions
Signatures(a) ==
    {None, Some(<<"#", "x">>)} \cup LegacySignatures(a) \cup DelegatedSignatures(a)

WithSignatures(a) == {[a EXCEPT !.model_signature = sig] : sig \in Signatures(a)}

\* a registered user's submissions for a context with matching ids and a
\* valid input: every output, signature, flag and endpoint
ModelSubmissions(cid) ==
    UNION {WithSignatures(Submission(RoundOf(cid).tid, RoundOf(cid).rid, Registered, cid,
                                     ValidInput(cid), output, None, flag, None, endpoint)) :
           output \in {None} \cup Outputs(cid), flag \in Flags, endpoint \in Endpoints(cid)}

\* a human-only submission and a correctly signed legacy submission
WellFormed(tid, rid, who, cid, input, tag) ==
    LET human == Submission(tid, rid, who, cid, input, None, None, None, tag, None)
        model == Submission(tid, rid, who, cid, input, Some(OutputList(cid)[1]), None,
                            Some(TRUE), tag, Some(LegacyEndpoint))
    IN {human} \cup {[model EXCEPT !.model_signature = sig] : sig \in LegacySignatures(model)}

\* the well-formed submissions with the submitter, the declared ids and the
\* input varied
EarlySubmissions(cid) ==
    UNION {WellFormed(RoundOf(cid).tid + d[1], RoundOf(cid).rid + d[2], who, cid, input, None) :
           d \in {<<0, 0>>, <<1, 0>>, <<0, 1>>},
           who \in {AnonymousWithoutId, AnonymousWithId, Registered},
           input \in {ValidInput(cid), InvalidInput(cid)}}

AdmitContexts == {1, 4, 5, 6, 7}

AdmitSubmissions ==
    UNION {ModelSubmissions(cid) \cup EarlySubmissions(cid) : cid \in AdmitContexts}

MaxAdmitted == 1

Admit ==
    /\ Len(examples) < MaxAdmitted
    /\ \E a \in AdmitSubmissions, storeOk \in BOOLEAN : Create(a, storeOk)

-----------------------------------------------------------------------------
(* Validation and retraction: the writes made outside this module's code *)

Range(seq) == {seq[i] : i \in DOMAIN seq}

Users == {"u1", "u2"}

Labels == {"correct", "incorrect", "flagged"}

\* rows written or changed so far: examples, validations, retractions
Writes ==
    Len(examples) + Cardinality(validations)
    + Cardinality({i \in DOMAIN examples : examples[i].retracted})

MaxWrites == 3

\* a user's judgment of an example is recorded and the example's count of
\* completed validations goes up by one
Validate(eid, uid, label, mode) ==
    /\ last.op = "idle"
    /\ eid \in DOMAIN examples
    /\ [eid |-> eid, uid |-> uid, label |-> label, mode |-> mode] \notin validations
    /\ validations' = validations
                      \cup {[eid |-> eid, uid |-> uid, label |-> label, mode |-> mode]}
    /\ examples' = [examples EXCEPT ![eid].total_verified = @ + 1]
    /\ last' = [op |-> "validate", eid |-> eid]

\* the soft delete
Retract(eid) ==
    /\ last.op = "idle"
    /\ eid \in DOMAIN examples
    /\ ~examples[eid].retracted
    /\ examples' = [examples EXCEPT ![eid].retracted = TRUE]
    /\ last' = [op |-> "retract", eid |-> eid]
    /\ UNCHANGED validations

-----------------------------------------------------------------------------
(* getRandom and getRandomFiltered *)

ValidationsOf(e) == {v \in validations : v.eid = e.id}

\* sum(case([(Validation.label == label, 1)], else_=0)) of an example's group
CntLabel(e, label) == Cardinality({v \in ValidationsOf(e) : v.label = label})

CntOwnerValidated(e) == Cardinality({v \in ValidationsOf(e) : v.mode = "owner"})

CntUid(e, uid) == Cardinality({v \in ValidationsOf(e) : v.uid = uid})

\* the query both retrievals start from: the round's examples that are not
\* retracted, with the tag filter (a NULL tag is in no list) and the fooling
\* filter (a NULL model_wrong is not True)
BaseQueryIgnoringRetraction(rid, validate_non_fooling, tags) ==
    {e \in Range(examples) :
        /\ Contexts[e.cid].r_realid = rid
        /\ (tags # None /\ The(tags) # {}) => (e.tag # None /\ The(e.tag) \in The(tags))
        /\ ~validate_non_fooling => e.model_wrong = Some(TRUE)}

BaseQuery(rid, validate_non_fooling, tags) ==
    {e \in Range(examples) :
        /\ Contexts[e.cid].r_realid = rid
        /\ ~e.retracted
        /\ (tags # None /\ The(tags) # {}) => (e.tag # None /\ The(e.tag) \in The(tags))
        /\ ~validate_non_fooling => e.model_wrong = Some(TRUE)}

\* Example.uid != my_uid; a NULL uid compares as NULL and the row is dropped
NotAuthoredBy(e, my_uid) == e.uid # None /\ The(e.uid) # The(my_uid)

\* result_partially_validated UNION result_not_validated, then the author
\* filter (lines 431-455)
GetRandomCandidates(rid, validate_non_fooling, num_matching_validations, my_uid, tags) ==
    LET base == BaseQuery(rid, validate_non_fooling, tags)
        partially ==
            {e \in base :
                /\ ValidationsOf(e) # {}
                /\ CntLabel(e, "correct") < num_matching_validations
                /\ CntLabel(e, "flagged") < num_matching_validations
                /\ CntLabel(e, "incorrect") < num_matching_validations
                /\ CntOwnerValidated(e) = 0
                /\ my_uid # None => CntUid(e, The(my_uid)) = 0}
        notValidated == {e \in base : ValidationsOf(e) = {}}
    IN {e \in partially \cup notValidated : my_uid # None => NotAuthoredBy(e, my_uid)}

\* the HAVING clauses of getRandomFiltered on a validated example
WithinBands(e, min_num_flags, max_num_flags, min_num_disagreements, max_num_disagreements) ==
    /\ CntOwnerValidated(e) = 0
    /\ CntLabel(e, "flagged") <= max_num_flags
    /\ CntLabel(e, "flagged") >= min_num_flags
    /\ \/ /\ CntLabel(e, "incorrect") > CntLabel(e, "correct")
          /\ CntLabel(e, "correct") >= min_num_disagreements
          /\ CntLabel(e, "correct") <= max_num_disagreements
       \/ /\ CntLabel(e, "correct") >= CntLabel(e, "incorrect")
          /\ CntLabel(e, "incorrect") >= min_num_disagreements
          /\ CntLabel(e, "incorrect") <= max_num_disagreements

IncludesNotValidatedEither(min_num_flags, min_num_disagreements) ==
    min_num_disagreements = 0 \/ min_num_flags = 0

\* line 532
IncludesNotValidated(min_num_flags, min_num_disagreements) ==
    min_num_disagreements = 0 /\ min_num_flags = 0

GetRandomFilteredCandidates(rid, min_num_flags, max_num_flags, min_num_disagreements, max_num_disagreements, validate_non_fooling, tags) ==
    LET base == BaseQuery(rid, validate_non_fooling, tags)
        validated ==
            {e \in base :
                /\ ValidationsOf(e) # {}
                /\ WithinBands(e, min_num_flags, max_num_flags,
                               min_num_disagreements, max_num_disagreements)}
        notValidated == {e \in base : ValidationsOf(e) = {}}
    IN IF IncludesNotValidated(min_num_flags, min_num_disagreements)
       THEN validated \cup notValidated
       ELSE validated

\* ORDER BY NOT model_wrong, total_verified ASC: NOT NULL is NULL, which
\* MySQL sorts before every value; NOT TRUE is 0, NOT FALSE is 1
FooledKey(e) ==
    IF e.model_wrong = None THEN 0
    ELSE IF e.model_wrong = Some(TRUE) THEN 1
    ELSE 2

\* e1 is strictly before e2 in the order; rand() breaks the remaining ties
Before(e1, e2) ==
    \/ FooledKey(e1) < FooledKey(e2)
    \/ FooledKey(e1) = FooledKey(e2) /\ e1.total_verified < e2.total_verified

\* .order_by(...).limit(n).all(): the lists of min(n, |pool|) distinct
\* candidates in order that leave out no candidate strictly before one taken
Limited(pool, n) ==
    LET k == IF n < Cardinality(pool) THEN n ELSE Cardinality(pool)
    IN {s \in [1 .. k -> pool] :
           /\ \A i, j \in 1 .. k : i < j => (s[i] # s[j] /\ ~Before(s[j], s[i]))
           /\ \A e \in pool \ Range(s) : \A i \in 1 .. k : ~Before(e, s[i])}

RetrievalRounds == {1, 2}

MatchThresholds == {1, 2}

Counts == {1, 2}

Requesters == {None, Some("u1"), Some("u2"), Some("u3")}

TagFilters == {None, Some({"t"})}

Bands == {0, 1}

GetRandom ==
    /\ last.op = "idle"
    /\ \E rid \in RetrievalRounds, validate_non_fooling \in BOOLEAN,
          num_matching_validations \in MatchThresholds, n \in Counts,
          my_uid \in Requesters, tags \in TagFilters :
        \E pool \in {GetRandomCandidates(rid, validate_non_fooling,
                                         num_matching_validations, my_uid, tags)} :
          \E result \in Limited(pool, n) :
            last' = [op |-> "getRandom", rid |-> rid,
                     validate_non_fooling |-> validate_non_fooling,
                     num_matching_validations |-> num_matching_validations,
                     n |-> n, my_uid |-> my_uid, tags |-> tags,
                     candidates |-> pool, result |-> result]
    /\ UNCHANGED <<examples, validations>>

GetRandomFiltered ==
    /\ last.op = "idle"
    /\ \E rid \in RetrievalRounds, min_num_flags \in Bands, max_num_flags \in Bands,
          min_num_disagreements \in Bands, max_num_disagreements \in Bands,
          validate_non_fooling \in BOOLEAN, n \in Counts, tags \in TagFilters :
        \E pool \in {GetRandomFilteredCandidates(rid, min_num_flags, max_num_flags,
                         min_num_disagreements, max_num_disagreements,
                         validate_non_fooling, tags)} :
          \E result \in Limited(pool, n) :
            last' = [op |-> "getRandomFiltered", rid |-> rid,
                     min_num_flags |-> min_num_flags, max_num_flags |-> max_num_flags,
                     min_num_disagreements |-> min_num_disagreements,
                     max_num_disagreements |-> max_num_disagreements,
                     validate_non_fooling |-> validate_non_fooling,
                     n |-> n, tags |-> tags,
                     candidates |-> pool, result |-> result]
    /\ UNCHANGED <<examples, validations>>

Leased(earlier) == Range(earlier.result)

\* what a later getRandom call cannot see of an earlier call whose examples
\* are still out with its validator: getRandom writes nothing, so nothing
Reserved(earlier) == {}

\* a second validator calls getRandom on the same round while the examples
\* of the first call are still out and no validation has come in
GetRandomMeanwhile ==
    /\ last.op = "getRandom"
    /\ "earlier" \notin DOMAIN last
    /\ last.my_uid # None
    /\ \E n \in Counts, my_uid \in Requesters \ {None, last.my_uid} :
        \E pool \in {GetRandomCandidates(last.rid, last.validate_non_fooling,
                                         last.num_matching_validations, my_uid, last.tags)
                     \ Reserved(last)} :
          \E result \in Limited(pool, n) :
            last' = [op |-> "getRandom", rid |-> last.rid,
                     validate_non_fooling |-> last.validate_non_fooling,
                     num_matching_validations |-> last.num_matching_validations,
                     n |-> n, my_uid |-> my_uid, tags |-> last.tags,
                     candidates |-> pool, result |-> result, earlier |-> last]
    /\ UNCHANGED <<examples, validations>>

\* the submissions that fill the store: a human-only one, correctly signed
\* model submissions (fooled and not, by two users and an anonymous worker,
\* two rounds, tagged and not) and one with a wrong signature
SignedLegacy(who, cid, flag, tag) ==
    LET model == Submission(RoundOf(cid).tid, RoundOf(cid).rid, who, cid, ValidInput(cid),
                            Some(OutputList(cid)[1]), None, flag, tag, Some(LegacyEndpoint))
    IN {[model EXCEPT !.model_signature = sig] : sig \in LegacySignatures(model)}

StoreSubmissions ==
    {Submission(1, 1, Registered, 1, ValidInput(1), None, None, None, None, None),
     Submission(1, 1, Registered, 1, ValidInput(1), Some(OutputList(1)[1]),
                Some(<<"#", "x">>), Some(TRUE), None, Some(LegacyEndpoint))}
    \cup SignedLegacy(Registered, 1, Some(TRUE), Some("t"))
    \cup SignedLegacy(OtherRegistered, 1, Some(FALSE), None)
    \cup SignedLegacy(AnonymousWithId, 3, Some(TRUE), None)

Submit ==
    /\ Writes < MaxWrites
    /\ \E a \in StoreSubmissions, storeOk \in BOOLEAN : Create(a, storeOk)

Judge ==
    /\ Writes < MaxWrites
    /\ \E eid \in DOMAIN examples, uid \in Users, label \in Labels :
        \E mode \in IF label = "correct" THEN {"user", "owner"} ELSE {"user"} :
            Validate(eid, uid, label, mode)

Withdraw ==
    /\ Writes < MaxWrites
    /\ \E eid \in DOMAIN examples : Retract(eid)

-----------------------------------------------------------------------------
(* Calls of verify_signature on their own *)

Init ==
    /\ examples = <<>>
    /\ validations = {}
    /\ last = [op |-> "idle"]

SigContexts == {1, 2, 3, 4}

SigHypotheses == {<<"a", "a">>, <<"h">>}

SigPredictions == {<<"p">>, <<"q">>}

\* every ordering of a list of fields
Orderings(fields) ==
    LET n == Len(fields)
        perms == {f \in [1 .. n -> 1 .. n] : \A i, j \in 1 .. n : f[i] = f[j] => i = j}
    IN {[i \in 1 .. n |-> fields[f[i]]] : f \in perms}

\* What a client may have hashed to obtain the signature it sends: the four
\* fields of the call or the three without the context, in any order
ClientFields(cid, hypothesis, pred_str) ==
    Orderings(<<pred_str, ContextStr(cid), hypothesis, TripleStr(cid)>>)
    \cup Orderings(<<pred_str, hypothesis, TripleStr(cid)>>)

VerifySignatureCall ==
    /\ last.op = "idle"
    /\ \E cid \in SigContexts, hypothesis \in SigHypotheses, pred_str \in SigPredictions :
      \E fields \in ClientFields(cid, hypothesis, pred_str) :
        LET signature == Sha1Hex(Flatten(fields))
        IN /\ last' = [op |-> "verify_signature",
                       signature |-> signature,
                       cid |-> cid,
                       hypothesis |-> hypothesis,
                       pred_str |-> pred_str,
                       clientFields |-> fields,
                       result |-> VerifySignature(signature, cid, hypothesis, pred_str)]
           /\ UNCHANGED <<examples, validations>>

NextAdmit == Admit \/ Return

SpecAdmit == Init /\ [][NextAdmit]_vars

NextSig == VerifySignatureCall \/ Return

NextStore == Submit \/ Judge \/ Withdraw \/ GetRandom \/ GetRandomFiltered \/ Return

SpecStore == Init /\ [][NextStore]_vars

NextRace == Submit \/ Judge \/ Withdraw \/ GetRandom \/ GetRandomMeanwhile \/ Return

SpecRace == Init /\ [][NextRace]_vars

SpecSig == Init /\ [][NextSig]_vars

-----------------------------------------------------------------------------
(* Admission: what create returns and stores *)

CreateCalled == last.op = "create"

\* the first two checks of create let the submission through
PassesEarlyChecks(a) == ~TurkWithoutAnnotator(a) /\ ~ContextMismatch(a)

\* C2 as stated: with output, signature and endpoint name null, whatever
\* the other arguments, a submission that passes the anonymous-worker check
\* and the context match is persisted iff the merged context and input pass
\* verify_annotation (the store write succeeding).
C2_HumanOnlyIffValid ==
    (/\ CreateCalled
     /\ NoModelInLoopIgnoringFlag(last.args)
     /\ PassesEarlyChecks(last.args)
     /\ last.storeOk)
    => (last.returned = "example"
        <=> VerifyAnnotation(Tasks[last.args.tid], UserAnnotationData(last.args)))

\* C2 amended: the same with the model_wrong flag null as well; the example
\* returned is the row at the end of the store.
C2_HumanOnlyIffValid_Amended ==
    (/\ CreateCalled
     /\ NoModelInLoop(last.args)
     /\ PassesEarlyChecks(last.args)
     /\ last.storeOk)
    => /\ last.returned = "example"
          <=> VerifyAnnotation(Tasks[last.args.tid], UserAnnotationData(last.args))
       /\ last.returned # "example" => last.returned = "false" /\ last.example = None
       /\ last.returned = "example" =>
            /\ examples # <<>>
            /\ last.example = Some(examples[Len(examples)])

C2_Witness ==
    /\ CreateCalled
    /\ NoModelInLoop(last.args)
    /\ PassesEarlyChecks(last.args)
    /\ last.storeOk
    /\ last.returned = "example"
    /\ examples # <<>>

\* C3: a create call with uid "turk" and no annotator_id in the metadata
\* returns False with no collaborator called before (no context fetch, no
\* verify_annotation, no signature check) and leaves the store as it was.
C3_TurkRejectedFirst ==
    [][(last'.op = "create" /\ TurkWithoutAnnotator(last'.args))
       => (/\ last'.returned = "false"
           /\ last'.trace = <<>>
           /\ last'.example = None
           /\ examples' = examples)]_vars

\* such a call was made although its context, ids and payload are in order
C3_Witness ==
    /\ CreateCalled
    /\ TurkWithoutAnnotator(last.args)
    /\ ~ContextMismatch(last.args)
    /\ VerifyAnnotation(Tasks[last.args.tid], UserAnnotationData(last.args))
    /\ last.args.output # None
    /\ last.returned = "false"

\* C4: whenever at least one of model_signature, model_wrong,
\* model_endpoint_name and output is non-null, create completes by returning
\* a persisted Example or False, and nothing else.
C4_ModelSubmissionReturns ==
    (CreateCalled /\ ~NoModelInLoop(last.args))
    => last.returned \in {"example", "false"}

\* a delegated-scheme submission that passed both schema validations and
\* whose endpoint is a hosted model
DelegatedChecked(a) ==
    /\ PassesEarlyChecks(a)
    /\ VerifyAnnotation(Tasks[a.tid], UserAnnotationData(a))
    /\ a.output # None
    /\ VerifyAnnotation(Tasks[a.tid], ModelAnnotationData(a))
    /\ a.model_endpoint_name # None
    /\ StartsWith(The(a.model_endpoint_name), <<"t", "s">>)
    /\ ModelSecret(The(a.model_endpoint_name)) # None

EndpointSecret(a) == The(ModelSecret(The(a.model_endpoint_name)))

\* C5: in the delegated scheme a submission that passed both schema
\* validations and whose signature equals the current-schema or the
\* legacy-schema reconstruction is accepted: the signature check lets it
\* through and create returns the persisted example (False only if the
\* store write itself fails).
C5_DelegatedEitherAccepted ==
    (/\ CreateCalled
     /\ DelegatedChecked(last.args)
     /\ \/ last.args.model_signature = Some(DelegatedCurrent(last.args, EndpointSecret(last.args)))
        \/ last.args.model_signature = Some(DelegatedLegacy(last.args, EndpointSecret(last.args))))
    => /\ last.trace = <<"get_context", "verify_annotation", "verify_annotation",
                         "delegated_signature">>
       /\ last.returned = (IF last.storeOk THEN "example" ELSE "false")
       /\ last.storeOk => /\ examples # <<>>
                          /\ last.example = Some(examples[Len(examples)])

\* a signature equal to the legacy reconstruction only was accepted
C5_Witness ==
    /\ CreateCalled
    /\ DelegatedChecked(last.args)
    /\ last.args.model_signature = Some(DelegatedLegacy(last.args, EndpointSecret(last.args)))
    /\ last.args.model_signature # Some(DelegatedCurrent(last.args, EndpointSecret(last.args)))
    /\ last.returned = "example"
    /\ examples # <<>>

-----------------------------------------------------------------------------
(* The legacy signature: what it binds *)

\* the (task id, round id, round secret) triple a context binds
Triple(cid) == <<RoundOf(cid).tid, RoundOf(cid).rid, RoundOf(cid).secret>>

\* the number of the four signed items in which two calls differ
ItemsChanged(cid1, hyp1, pred1, cid2, hyp2, pred2) ==
    (IF pred1 # pred2 THEN 1 ELSE 0)
    + (IF (HashesContext(cid1) \/ HashesContext(cid2))
          /\ ContextStr(cid1) # ContextStr(cid2) THEN 1 ELSE 0)
    + (IF hyp1 # hyp2 THEN 1 ELSE 0)
    + (IF Triple(cid1) # Triple(cid2) THEN 1 ELSE 0)

\* C6: a signature that verify_signature accepts for a prediction string,
\* context string, hypothesis and (task id, round id, secret) triple is
\* rejected once exactly one of these four items is changed; in particular it
\* is never valid for a different triple.
C6_SingleChangeRejected ==
    (last.op = "verify_signature" /\ last.result) =>
        \A cid \in SigContexts, hypothesis \in SigHypotheses, pred_str \in SigPredictions :
            ItemsChanged(last.cid, last.hypothesis, last.pred_str,
                         cid, hypothesis, pred_str) = 1
            => ~VerifySignature(last.signature, cid, hypothesis, pred_str)

\* C7: verify_signature returns true exactly when the signature is the digest
\* of prediction, context (unless sentiment/hs), hypothesis, tid-rid-secret
\* in this order; a signature over any other sequence of these fields
\* (reordered, context wrongly included or omitted) is rejected.
C7_OnlyCanonicalOrderAccepted ==
    last.op = "verify_signature" =>
        (last.result <=>
            last.clientFields = FieldsToSign(last.cid, last.hypothesis, last.pred_str))

-----------------------------------------------------------------------------
(* The store under creation, validation, retraction and retrieval *)

\* C1: a call of create that returns an Example appends exactly one row,
\* with an id no earlier row has, and leaves the earlier rows as they were;
\* a call that returns the failure indicator leaves the rows unchanged.
C1_OneRowPerReturnedExample ==
    [][(last'.op = "create") =>
          IF last'.returned = "example"
          THEN /\ Len(examples') = Len(examples) + 1
               /\ \A i \in DOMAIN examples :
                    /\ examples'[i] = examples[i]
                    /\ examples[i].id # examples'[Len(examples')].id
               /\ examples'[Len(examples')].cid = last'.args.cid
          ELSE (last'.returned = "false") => examples' = examples]_vars

\* two identical submissions both succeeded and left two rows that differ
\* in their id only
C1_Witness ==
    /\ CreateCalled
    /\ last.returned = "example"
    /\ Len(examples) = 2
    /\ examples[1].id # examples[2].id
    /\ [examples[2] EXCEPT !.id = examples[1].id] = examples[1]
    /\ NewExample(last.args, examples[1].model_wrong).cid = examples[1].cid

Retrieved == last.op \in {"getRandom", "getRandomFiltered"}

ReturnedRow(i) == examples[last.result[i].id]

\* C8: no example returned by getRandom or getRandomFiltered is retracted
\* or has a validation in owner mode; when getRandom is given a user id, no
\* returned example was authored by that user or has a validation by them.
C8_NeverReturned ==
    Retrieved =>
        \A i \in DOMAIN last.result :
            /\ ~ReturnedRow(i).retracted
            /\ \A v \in validations : v.eid = ReturnedRow(i).id => v.mode # "owner"
            /\ (last.op = "getRandom" /\ last.my_uid # None) =>
                  /\ ReturnedRow(i).uid # last.my_uid
                  /\ \A v \in validations :
                        v.eid = ReturnedRow(i).id => v.uid # The(last.my_uid)

\* a request by u1 for two examples of a round gets one, while the round
\* also holds an example u1 authored
C8_Witness ==
    /\ last.op = "getRandom"
    /\ last.my_uid = Some("u1")
    /\ last.n = 2
    /\ Len(last.result) = 1
    /\ \E e \in Range(examples) :
          /\ e.uid = Some("u1")
          /\ Contexts[e.cid].r_realid = last.rid
          /\ ~e.retracted
          /\ ValidationsOf(e) = {}

Fooled(e) == e.model_wrong = Some(TRUE)

\* C9: the returned examples are a prefix of the preference order: none
\* whose model_wrong is not true is returned while a candidate with
\* model_wrong true is left out, and among equal fooled status none with a
\* larger total_verified is returned while one with a smaller is left out.
C9_PreferencePrefix ==
    Retrieved =>
        \A i \in DOMAIN last.result :
            \A q \in last.candidates \ Range(last.result) :
                /\ ~(~Fooled(last.result[i]) /\ Fooled(q))
                /\ ~(/\ Fooled(last.result[i]) = Fooled(q)
                     /\ last.result[i].total_verified > q.total_verified)

\* C10: getRandomFiltered has a never-validated example of the base pool
\* among its candidates iff both minimums are 0; with a minimum above 0 no
\* returned example has zero validations; every returned example with
\* validations has its flagged count and its minority vote count in band.
Minority(e) ==
    IF CntLabel(e, "correct") < CntLabel(e, "incorrect")
    THEN CntLabel(e, "correct")
    ELSE CntLabel(e, "incorrect")

C10_NeverValidatedIffZeroMinimums ==
    (last.op = "getRandomFiltered") =>
        /\ \A e \in Range(examples) :
              (/\ Contexts[e.cid].r_realid = last.rid
               /\ ~e.retracted
               /\ last.tags # None => (e.tag # None /\ The(e.tag) \in The(last.tags))
               /\ ~last.validate_non_fooling => Fooled(e)
               /\ \A v \in validations : v.eid # e.id)
              => (e \in last.candidates
                    <=> (last.min_num_flags = 0 /\ last.min_num_disagreements = 0))
        /\ (last.min_num_flags > 0 \/ last.min_num_disagreements > 0) =>
              \A i \in DOMAIN last.result :
                  \E v \in validations : v.eid = last.result[i].id
        /\ \A i \in DOMAIN last.result :
              (\E v \in validations : v.eid = last.result[i].id) =>
                  /\ CntLabel(last.result[i], "flagged") >= last.min_num_flags
                  /\ CntLabel(last.result[i], "flagged") <= last.max_num_flags
                  /\ Minority(last.result[i]) >= last.min_num_disagreements
                  /\ Minority(last.result[i]) <= last.max_num_disagreements

\* a request with a disagreement minimum of 1 returns an example with one
\* correct and one incorrect vote
C10_Witness ==
    /\ last.op = "getRandomFiltered"
    /\ last.min_num_disagreements = 1
    /\ Len(last.result) = 1
    /\ Minority(last.result[1]) = 1

-----------------------------------------------------------------------------
(* Rejections *)

\* C12: in the delegated scheme a submission that passed both schema
\* validations and whose signature equals neither reconstruction makes
\* create return False, and no Example is stored.
C12_DelegatedMismatchReturnsFalse ==
    (CreateCalled /\ DelegatedChecked(last.args)
     /\ ~DelegatedAccepts(last.args, EndpointSecret(last.args)))
    => (last.returned = "false" /\ examples = <<>>)

\* the submission reaches the legacy scheme: both schema validations passed
\* and the endpoint name does not start with "ts"
LegacyChecked(a) ==
    /\ PassesEarlyChecks(a)
    /\ VerifyAnnotation(Tasks[a.tid], UserAnnotationData(a))
    /\ a.output # None
    /\ VerifyAnnotation(Tasks[a.tid], ModelAnnotationData(a))
    /\ a.model_endpoint_name # None
    /\ ~StartsWith(The(a.model_endpoint_name), <<"t", "s">>)

\* the task code and output match none of the shapes of the legacy scheme
UnrecognisedShape(task_code, output) ==
    IF task_code \in {"qa", "vqa"}
    THEN /\ ~(Has(output, "answer") /\ Has(output, "prob"))
         /\ ~(Has(output, "model_is_correct") /\ Has(output, "text"))
    ELSE \/ ~Has(output, "prob")
         \/ task_code \notin {"nli", "sentiment", "hs"}

\* C13: in the legacy scheme a task code and output that match none of the
\* recognised shapes make create return False without any signature
\* comparison, and nothing is stored.
C13_UnrecognisedShapeRejected ==
    (/\ CreateCalled
     /\ LegacyChecked(last.args)
     /\ UnrecognisedShape(TaskOf(last.args.cid).task_code, The(last.args.output)))
    => /\ last.returned = "false"
       /\ \A i \in DOMAIN last.trace : last.trace[i] # "verify_signature"
       /\ examples = <<>>

-----------------------------------------------------------------------------
(* The flag stored on an admitted example *)

\* the submission went down the legacy path of a qa or vqa task
LegacyQa(a) ==
    /\ a.model_endpoint_name # None
    /\ ~StartsWith(The(a.model_endpoint_name), <<"t", "s">>)
    /\ TaskOf(a.cid).task_code \in {"qa", "vqa"}

\* C15: the model_wrong stored on an admitted example is the caller's flag,
\* except on the legacy qa/vqa path: false for a vqa output with answer and
\* prob, else the negation of model_is_correct.
C15_StoredFlag ==
    (CreateCalled /\ last.returned = "example") =>
        examples[Len(examples)].model_wrong =
            IF ~LegacyQa(last.args) THEN last.args.model_wrong
            ELSE IF /\ TaskOf(last.args.cid).task_code = "vqa"
                    /\ Has(The(last.args.output), "answer")
                    /\ Has(The(last.args.output), "prob")
            THEN Some(FALSE)
            ELSE Some(Get(The(last.args.output), "model_is_correct") = BoolV(FALSE))

\* a qa submission flagged as not fooling by its caller is stored as
\* fooling because its output says the model was not correct
C15_Witness ==
    /\ CreateCalled
    /\ last.returned = "example"
    /\ LegacyQa(last.args)
    /\ last.args.model_wrong = Some(FALSE)
    /\ examples[Len(examples)].model_wrong = Some(TRUE)

-----------------------------------------------------------------------------
(* The pool of getRandom *)

\* the examples that qualify for the getRandom request held in last
Qualifying ==
    {e \in Range(examples) :
        /\ Contexts[e.cid].r_realid = last.rid
        /\ ~e.retracted
        /\ last.tags # None => (e.tag # None /\ The(e.tag) \in The(last.tags))
        /\ ~last.validate_non_fooling => Fooled(e)
        /\ \/ \A v \in validations : v.eid # e.id
           \/ /\ \A v \in validations : v.eid = e.id => v.mode # "owner"
              /\ \A label \in Labels :
                    Cardinality({v \in validations : v.eid = e.id /\ v.label = label})
                        < last.num_matching_validations
              /\ last.my_uid # None =>
                    \A v \in validations : v.eid = e.id => v.uid # The(last.my_uid)
        /\ last.my_uid # None => e.uid # last.my_uid}

\* C14: when n is at least the number of qualifying examples, getRandom
\* returns exactly the qualifying examples, an example without an
\* authoring user included.
C14_PoolIsQualifying ==
    (last.op = "getRandom" /\ last.n >= Cardinality(Qualifying))
    => Range(last.result) = Qualifying

-----------------------------------------------------------------------------
(* Two validators *)

\* C11: a retrieval step changes no example and no validation, and a call
\* made while an earlier call's examples are still out has among its
\* candidates every one of those examples that its own user neither
\* authored nor validated: nothing is reserved.
C11_RetrievalReservesNothing ==
    [][(last'.op \in {"getRandom", "getRandomFiltered"}) =>
          /\ examples' = examples
          /\ validations' = validations
          /\ ("earlier" \in DOMAIN last') =>
                \A i \in DOMAIN last'.earlier.result :
                    (/\ NotAuthoredBy(last'.earlier.result[i], last'.my_uid)
                     /\ \A v \in validations :
                           v.eid = last'.earlier.result[i].id => v.uid # The(last'.my_uid))
                    => last'.earlier.result[i] \in last'.candidates]_vars

\* two different validators hold the same example at once
C11_Witness ==
    /\ last.op = "getRandom"
    /\ "earlier" \in DOMAIN last
    /\ last.my_uid # last.earlier.my_uid
    /\ last.result # <<>>
    /\ Range(last.result) \cap Range(last.earlier.result) # {}

====
